---- MODULE Spec2Model ----
(***************************************************************************)
(* Model of the training driver train/mt_sweep.py (training loop,          *)
(* evaluate, checkpointing) and of models/gpt2/configuration_gpt2.py       *)
(* (GPT2Config.__init__).                                                  *)
(*                                                                         *)
(* Spec      one worker's run of main(): epochs, micro-batches, gradient   *)
(*           accumulation, metric logging, evaluation, checkpoints.        *)
(* FairSpec  Spec plus weak fairness (a sequential process keeps running). *)
(* SpecEval  evaluate() on a list of per-batch validation losses.          *)
(* SpecCfg   GPT2Config.__init__ called for a requested layer count,       *)
(*           embedding width and head count.                               *)
(* SpecMW    the loop and its checkpoint blocks run by several workers.    *)
(***************************************************************************)
EXTENDS Integers, Sequences, FiniteSets, TLC

\* ---------------------------------------------------------------- constants

MAX_GPU_BATCH_SIZE == 32

EvalInterval == 200

CheckpointInterval == 20000

\* ------------------------------------------------------------------- bounds

MaxEpochs == 2

MaxEvalBatches == 2

\* train_config["batch_size"] values explored: below, at twice and at four
\* times the per-device cap (the script itself sets 64).
BatchSizes == {2, 2 * MAX_GPU_BATCH_SIZE, 4 * MAX_GPU_BATCH_SIZE}

\* len(train_dataloader) values explored: odd and even lengths, one
\* evaluation interval, and lengths whose totals hit and miss a multiple of
\* the checkpoint interval.
TrainLens ==
    {1, 2, 3, 10, EvalInterval, CheckpointInterval \div 2,
     (CheckpointInterval \div 2) + 1}

TrainKeys ==
    {"train/train_loss", "train/epoch", "train/data_count", "train/learning_rate"}

ValidKeys == {"validation/valid_loss", "validation/valid_accuracy"}

MetricKeys == TrainKeys \cup ValidKeys

\* -------------------------------------------------------------------- state

VARIABLES
    cfg_batch_size,   \* train_config["batch_size"]
    batch_size,       \* micro-batch size handed to the train DataLoader
    num_epochs,       \* train_config["num_epochs"]
    n_batches,        \* len(train_dataloader)
    n_eval_batches,   \* len(eval_dataloader)
    pc,               \* position of main()
    epoch,            \* loop variable of the outer for (-1: not yet bound)
    step,             \* loop variable of the inner for (-1: not yet bound)
    fetched,          \* batches the inner enumerate has yielded this epoch
    absolute_step,
    data_count,
    acc_step,         \* accelerator.step, the accumulate() counter
    grad_accum,       \* micro-batches whose gradients sit in .grad
    opt_steps,        \* optimizer updates applied
    sched_steps,      \* scheduler steps applied
    model_mode,       \* "train" | "eval"
    grad_enabled,     \* FALSE inside torch.no_grad()
    eval_fwd,         \* what the last evaluate() call ran
    eval_ret,         \* (valid_loss, valid_accuracy) as last returned
    n_evals,          \* evaluate() calls made
    metrics,          \* per metric name: entries logged and the last step
    ckpt_log,         \* checkpoint writes, in order
    \* evaluate()
    ev_pc,            \* position of evaluate()
    ev_in,            \* outputs.loss of each validation batch, in order
    ev_losses,        \* the list `losses`
    ev_loss,          \* `loss`: the mean, as <<sum, count>>
    ev_perplexity,    \* `perplexity`
    ev_mode,          \* the model's mode
    ev_result,        \* what evaluate() returned, or the exception it raised
    \* GPT2Config.__init__
    gc_pc,            \* position of __init__
    gc_call,          \* how the caller passes its request
    gc_req,           \* what the caller asks for
    gc_n_embd,        \* the n_embd parameter as bound
    gc_blocks,        \* self.blocks
    \* several workers
    mw_num_epochs,
    mw_n_batches,     \* len(train_dataloader) of each worker's shard
    w_pc,             \* each worker's position of main()
    w_epoch,
    w_fetched,
    w_abs,            \* each worker's absolute_step
    w_acc,            \* each worker's accumulate() counter
    w_barriers,       \* wait_for_everyone() calls each worker has made
    fs                \* checkpoint files written: path, part, writer

trainVars ==
    <<cfg_batch_size, batch_size, num_epochs, n_batches, n_eval_batches, pc,
      epoch, step, fetched, absolute_step, data_count, acc_step, grad_accum,
      opt_steps, sched_steps, model_mode, grad_enabled, eval_fwd, eval_ret,
      n_evals, metrics, ckpt_log>>

evalVars ==
    <<ev_pc, ev_in, ev_losses, ev_loss, ev_perplexity, ev_mode, ev_result>>

gcVars == <<gc_pc, gc_call, gc_req, gc_n_embd, gc_blocks>>

mwVars ==
    <<mw_num_epochs, mw_n_batches, w_pc, w_epoch, w_fetched, w_abs,
      w_acc, w_barriers, fs>>

vars == <<trainVars, evalVars, gcVars, mwVars>>

cfgVars == <<cfg_batch_size, batch_size, num_epochs, n_batches, n_eval_batches>>

\* ------------------------------------------------------------------ helpers

\* faulty variant: the accumulation count main() derives from the run's
\* batch size (one micro-batch per update when the batch fits the cap),
\* handed to the accelerator
GradAccumSteps_FromBatchSize ==
    IF cfg_batch_size > MAX_GPU_BATCH_SIZE
    THEN cfg_batch_size \div MAX_GPU_BATCH_SIZE ELSE 1

\* Accelerator(gradient_accumulation_steps=64 // MAX_GPU_BATCH_SIZE)
AcceleratorGradAccumSteps == 64 \div MAX_GPU_BATCH_SIZE

\* if train_config["batch_size"] > MAX_GPU_BATCH_SIZE: batch_size = MAX_GPU_BATCH_SIZE
MicroBatchSize(b) == IF b > MAX_GPU_BATCH_SIZE THEN MAX_GPU_BATCH_SIZE ELSE b

\* accelerator.accumulate(model): the last batch of the dataloader always
\* synchronises and resets the counter; otherwise the counter advances and
\* every AcceleratorGradAccumSteps-th micro-batch synchronises.
AccumulateStep(acc, eod) == IF eod THEN 0 ELSE acc + 1

AccumulateSync(acc, eod) ==
    eod \/ ((acc + 1) % AcceleratorGradAccumSteps = 0)

\* faulty variant: a scheduler stepped on every micro-batch, as an
\* unprepared scheduler would be
SchedulerStep_EveryMicroBatch(n, sync) == n + 1

\* lr_scheduler.step() of the prepared scheduler: acts only on a sync step.
SchedulerStep(n, sync) == IF sync THEN n + 1 ELSE n

\* optimizer.step() of the prepared optimizer: acts only on a sync step.
OptimizerStep(n, sync) == IF sync THEN n + 1 ELSE n

\* optimizer.zero_grad() of the prepared optimizer: acts only on a sync step.
ZeroGrad(g, sync) == IF sync THEN 0 ELSE g

\* faulty variant: logging under the per-epoch batch index
LogStep_EpochIndex(abs, st) == st + 1

\* step=absolute_step of every accelerator.log call
LogStep(abs, st) == abs

\* accelerator.log({key: value}, step=s), for every key of `entries`
\* (a function from metric names to the quantity logged under each)
Log(m, entries, s) ==
    [k \in MetricKeys |->
        IF k \in DOMAIN entries
        THEN [n |-> m[k].n + 1, last |-> s, val |-> entries[k]]
        ELSE m[k]]

\* the four train/* log calls
TrainEntries ==
    [k \in TrainKeys |->
        CASE k = "train/train_loss" -> "loss"
          [] k = "train/epoch" -> "epoch_fraction"
          [] k = "train/data_count" -> "data_count"
          [] k = "train/learning_rate" -> "learning_rate"]

\* the two validation/* log calls, fed from evaluate's return value
ValidEntries(ret) ==
    [k \in ValidKeys |->
        IF k = "validation/valid_loss" THEN ret[1] ELSE ret[2]]

\* faulty variants: the interval tests taken on absolute_step + 1, as the
\* train/epoch metric is
EvalDue_OffByOne(abs) == (abs + 1) % EvalInterval = 0

CheckpointDue_OffByOne(abs) == (abs + 1) % CheckpointInterval = 0

\* if absolute_step % 200 == 0
EvalDue(abs) == abs % EvalInterval = 0

\* if absolute_step % 20000 == 0
CheckpointDue(abs) == abs % CheckpointInterval = 0

\* where main() goes after the four train/* log calls
AfterTrainLogs(abs) ==
    IF EvalDue(abs) THEN "eval"
    ELSE IF CheckpointDue(abs) THEN "ckpt" ELSE "train"

\* what a checkpoint block persists: save_pretrained's model files and the
\* accelerator_states bundle, under .../checkpoint_{absolute_step}
CheckpointRecord(kind) ==
    [path |-> absolute_step, kind |-> kind,
     files |-> {"model", "accelerator_states"},
     epoch |-> epoch, steps |-> step,
     optimizer |-> opt_steps, scheduler |-> sched_steps]

\* --------------------------------------------------------------------- Init

TrainInit ==
    /\ cfg_batch_size \in BatchSizes
    /\ batch_size = MicroBatchSize(cfg_batch_size)
    /\ num_epochs \in 1..MaxEpochs
    /\ n_batches \in TrainLens
    /\ n_eval_batches \in 1..MaxEvalBatches
    /\ pc = "epoch"
    /\ epoch = -1
    /\ step = -1
    /\ fetched = 0
    /\ absolute_step = 0
    /\ data_count = 0
    /\ acc_step = 0
    /\ grad_accum = 0
    /\ opt_steps = 0
    /\ sched_steps = 0
    /\ model_mode = "train"
    /\ grad_enabled = TRUE
    /\ eval_fwd = [n |-> 0, grad |-> TRUE, mode |-> "train"]
    /\ eval_ret = <<"none", "none">>
    /\ n_evals = 0
    /\ metrics = [k \in MetricKeys |-> [n |-> 0, last |-> 0, val |-> "none"]]
    /\ ckpt_log = <<>>

\* the parts of the state a specification does not run
TrainOff ==
    /\ cfg_batch_size = 0 /\ batch_size = 0 /\ num_epochs = 0
    /\ n_batches = 0 /\ n_eval_batches = 0 /\ pc = "off"
    /\ epoch = -1 /\ step = -1 /\ fetched = 0 /\ absolute_step = 0
    /\ data_count = 0 /\ acc_step = 0 /\ grad_accum = 0
    /\ opt_steps = 0 /\ sched_steps = 0
    /\ model_mode = "train" /\ grad_enabled = TRUE
    /\ eval_fwd = [n |-> 0, grad |-> TRUE, mode |-> "train"]
    /\ eval_ret = <<"none", "none">>
    /\ n_evals = 0
    /\ metrics = [k \in MetricKeys |-> [n |-> 0, last |-> 0, val |-> "none"]]
    /\ ckpt_log = <<>>

EvalOff ==
    /\ ev_pc = "off" /\ ev_in = <<>> /\ ev_losses = <<>>
    /\ ev_loss = <<0, 0>> /\ ev_perplexity = "none"
    /\ ev_mode = "train" /\ ev_result = "none"

GcOff ==
    /\ gc_pc = "off" /\ gc_call = "none"
    /\ gc_req = [n_layer |-> 0, n_embd |-> 0, n_head |-> 0]
    /\ gc_n_embd = 0 /\ gc_blocks = <<>>

MwOff ==
    /\ mw_num_epochs = 0 /\ mw_n_batches = 0
    /\ w_pc = <<>> /\ w_epoch = <<>> /\ w_fetched = <<>>
    /\ w_abs = <<>> /\ w_acc = <<>> /\ w_barriers = <<>> /\ fs = {}

Init == TrainInit /\ EvalOff /\ GcOff /\ MwOff

\* ------------------------------------------------------------------ actions

\* for epoch in range(num_epochs): model.train()
BeginEpoch ==
    /\ pc = "epoch"
    /\ epoch + 1 < num_epochs
    /\ epoch' = epoch + 1
    /\ fetched' = 0
    /\ model_mode' = "train"
    /\ pc' = "train"
    /\ UNCHANGED <<evalVars, gcVars, mwVars>>
    /\ UNCHANGED <<cfgVars, step, absolute_step, data_count, acc_step,
                   grad_accum, opt_steps, sched_steps, grad_enabled, eval_fwd,
                   eval_ret, n_evals, metrics, ckpt_log>>

\* one iteration of the inner loop up to the four train/* log calls
TrainStep ==
    /\ pc = "train"
    /\ fetched < n_batches
    /\ LET eod  == fetched + 1 = n_batches
           sync == AccumulateSync(acc_step, eod)
           abs  == absolute_step + 1
       IN /\ step' = fetched
          /\ fetched' = fetched + 1
          /\ acc_step' = AccumulateStep(acc_step, eod)
          /\ sched_steps' = SchedulerStep(sched_steps, sync)
          /\ opt_steps' = OptimizerStep(opt_steps, sync)
          /\ grad_accum' = ZeroGrad(grad_accum + 1, sync)
          /\ data_count' = data_count + batch_size
          /\ absolute_step' = abs
          /\ metrics' = Log(metrics, TrainEntries, LogStep(abs, fetched))
          /\ pc' = AfterTrainLogs(abs)
    /\ UNCHANGED <<evalVars, gcVars, mwVars>>
    /\ UNCHANGED <<cfgVars, epoch, model_mode, grad_enabled, eval_fwd,
                   eval_ret, n_evals, ckpt_log>>

\* the inner for is exhausted: back to the outer for
EndEpoch ==
    /\ pc = "train"
    /\ fetched = n_batches
    /\ pc' = "epoch"
    /\ UNCHANGED <<evalVars, gcVars, mwVars>>
    /\ UNCHANGED <<cfgVars, epoch, step, fetched, absolute_step, data_count,
                   acc_step, grad_accum, opt_steps, sched_steps, model_mode,
                   grad_enabled, eval_fwd, eval_ret, n_evals, metrics,
                   ckpt_log>>

\* if absolute_step % 200 == 0: model.eval(); with torch.no_grad():
EvalBegin ==
    /\ pc = "eval"
    /\ model_mode' = "eval"
    /\ grad_enabled' = FALSE
    /\ pc' = "evaluating"
    /\ UNCHANGED <<evalVars, gcVars, mwVars>>
    /\ UNCHANGED <<cfgVars, epoch, step, fetched, absolute_step, data_count,
                   acc_step, grad_accum, opt_steps, sched_steps, eval_fwd,
                   eval_ret, n_evals, metrics, ckpt_log>>

\* valid_loss, valid_accuracy = evaluate(model, eval_dataloader, accelerator)
\* evaluate returns (loss.item(), perplexity.item()); leaving the with block
\* restores gradient tracking.
Evaluate ==
    /\ pc = "evaluating"
    /\ eval_fwd' = [n |-> n_eval_batches, grad |-> grad_enabled, mode |-> "eval"]
    /\ eval_ret' = <<"loss", "perplexity">>
    /\ n_evals' = n_evals + 1
    /\ grad_enabled' = TRUE
    /\ pc' = "evallog"
    /\ UNCHANGED <<evalVars, gcVars, mwVars>>
    /\ UNCHANGED <<cfgVars, epoch, step, fetched, absolute_step, data_count,
                   acc_step, grad_accum, opt_steps, sched_steps, model_mode,
                   metrics, ckpt_log>>

\* the two validation/* log calls, then model.train()
EvalLog ==
    /\ pc = "evallog"
    /\ metrics' = Log(metrics, ValidEntries(eval_ret), LogStep(absolute_step, step))
    /\ model_mode' = "train"
    /\ pc' = IF CheckpointDue(absolute_step) THEN "ckpt" ELSE "train"
    /\ UNCHANGED <<evalVars, gcVars, mwVars>>
    /\ UNCHANGED <<cfgVars, epoch, step, fetched, absolute_step, data_count,
                   acc_step, grad_accum, opt_steps, sched_steps, grad_enabled,
                   eval_fwd, eval_ret, n_evals, ckpt_log>>

\* if absolute_step % 20000 == 0: mkdir, wait_for_everyone, save_pretrained,
\* accelerator.save
Checkpoint ==
    /\ pc = "ckpt"
    /\ ckpt_log' = Append(ckpt_log, CheckpointRecord("periodic"))
    /\ pc' = "train"
    /\ UNCHANGED <<evalVars, gcVars, mwVars>>
    /\ UNCHANGED <<cfgVars, epoch, step, fetched, absolute_step, data_count,
                   acc_step, grad_accum, opt_steps, sched_steps, model_mode,
                   grad_enabled, eval_fwd, eval_ret, n_evals, metrics>>

\* the outer for is exhausted
LoopExit ==
    /\ pc = "epoch"
    /\ epoch + 1 = num_epochs
    /\ pc' = "final"
    /\ UNCHANGED <<evalVars, gcVars, mwVars>>
    /\ UNCHANGED <<cfgVars, epoch, step, fetched, absolute_step, data_count,
                   acc_step, grad_accum, opt_steps, sched_steps, model_mode,
                   grad_enabled, eval_fwd, eval_ret, n_evals, metrics,
                   ckpt_log>>

\* # Save final model
FinalCheckpoint ==
    /\ pc = "final"
    /\ ckpt_log' = Append(ckpt_log, CheckpointRecord("final"))
    /\ pc' = "end"
    /\ UNCHANGED <<evalVars, gcVars, mwVars>>
    /\ UNCHANGED <<cfgVars, epoch, step, fetched, absolute_step, data_count,
                   acc_step, grad_accum, opt_steps, sched_steps, model_mode,
                   grad_enabled, eval_fwd, eval_ret, n_evals, metrics>>

\* accelerator.end_training(); torch.cuda.empty_cache()
EndTraining ==
    /\ pc = "end"
    /\ pc' = "finished"
    /\ UNCHANGED <<evalVars, gcVars, mwVars>>
    /\ UNCHANGED <<cfgVars, epoch, step, fetched, absolute_step, data_count,
                   acc_step, grad_accum, opt_steps, sched_steps, model_mode,
                   grad_enabled, eval_fwd, eval_ret, n_evals, metrics,
                   ckpt_log>>

Next ==
    \/ BeginEpoch
    \/ TrainStep
    \/ EndEpoch
    \/ EvalBegin
    \/ Evaluate
    \/ EvalLog
    \/ Checkpoint
    \/ LoopExit
    \/ FinalCheckpoint
    \/ EndTraining

Spec == Init /\ [][Next]_vars

FairSpec == Spec /\ WF_vars(Next)

\* ================================================================ evaluate

\* per-batch validation losses explored (in whole loss units)
LossValues == {0, 3, 88, 89, 177}

\* ln of the largest float32, times 10^4: torch.exp of a float32 tensor is
\* inf above it
Float32ExpLimitE4 == 887228

RECURSIVE SumSeq(_)
SumSeq(q) == IF q = <<>> THEN 0 ELSE q[1] + SumSeq(Tail(q))

\* all sequences over S of length 1..n
RECURSIVE SeqsUpTo(_, _)
SeqsUpTo(S, n) ==
    IF n = 0 THEN {}
    ELSE SeqsUpTo(S, n - 1) \cup [1..n -> S]

\* torch.mean(torch.stack(losses)), kept exact as <<sum, count>>
TorchMean(losses) == <<SumSeq(losses), Len(losses)>>

\* whether e^(m[1] / m[2]) exceeds the float32 range
ExpOverflows(m) == m[1] * 10000 > Float32ExpLimitE4 * m[2]

Tensor(kind, arg) == [type |-> "tensor", kind |-> kind, arg |-> arg]

\* float("inf")
PyFloatInf == [type |-> "float", kind |-> "inf", arg |-> <<0, 0>>]

\* faulty variant: math.exp's behaviour, OverflowError instead of inf
TorchExp_RaisesOverflowError(m) ==
    IF ExpOverflows(m)
    THEN [raised |-> "OverflowError", value |-> Tensor("none", <<0, 0>>)]
    ELSE [raised |-> "none", value |-> Tensor("exp", m)]

\* torch.exp(loss): never raises; the result is the inf tensor on overflow
TorchExp(m) ==
    [raised |-> "none",
     value |-> IF ExpOverflows(m) THEN Tensor("inf", <<0, 0>>)
               ELSE Tensor("exp", m)]

\* x.item(): a tensor has it, a Python float does not
HasItem(x) == x.type = "tensor"

Item(x) == [kind |-> x.kind, arg |-> x.arg]

EvalInit ==
    /\ ev_pc = "start"
    /\ ev_in \in SeqsUpTo(LossValues, MaxEvalBatches)
    /\ ev_losses = <<>>
    /\ ev_loss = <<0, 0>>
    /\ ev_perplexity = Tensor("none", <<0, 0>>)
    /\ ev_mode \in {"train", "eval"}
    /\ ev_result = [raised |-> "none", loss |-> <<0, 0>>,
                    perplexity |-> [kind |-> "none", arg |-> <<0, 0>>]]

\* model.eval(); losses = []
EvModelEval ==
    /\ ev_pc = "start"
    /\ ev_mode' = "eval"
    /\ ev_losses' = <<>>
    /\ ev_pc' = "loop"
    /\ UNCHANGED <<ev_in, ev_loss, ev_perplexity, ev_result>>
    /\ UNCHANGED <<trainVars, gcVars, mwVars>>

\* one validation batch: losses.append(accelerator.gather(outputs.loss))
EvBatch ==
    /\ ev_pc = "loop"
    /\ Len(ev_losses) < Len(ev_in)
    /\ ev_losses' = Append(ev_losses, ev_in[Len(ev_losses) + 1])
    /\ UNCHANGED <<ev_pc, ev_in, ev_loss, ev_perplexity, ev_mode, ev_result>>
    /\ UNCHANGED <<trainVars, gcVars, mwVars>>

\* loss = torch.mean(torch.stack(losses))
EvMean ==
    /\ ev_pc = "loop"
    /\ Len(ev_losses) = Len(ev_in)
    /\ ev_loss' = TorchMean(ev_losses)
    /\ ev_pc' = "exp"
    /\ UNCHANGED <<ev_in, ev_losses, ev_perplexity, ev_mode, ev_result>>
    /\ UNCHANGED <<trainVars, gcVars, mwVars>>

\* try: perplexity = torch.exp(loss)
\* except OverflowError: perplexity = float("inf")
EvExp ==
    /\ ev_pc = "exp"
    /\ LET r == TorchExp(ev_loss)
       IN ev_perplexity' =
            IF r.raised = "OverflowError" THEN PyFloatInf ELSE r.value
    /\ ev_pc' = "print"
    /\ UNCHANGED <<ev_in, ev_losses, ev_loss, ev_mode, ev_result>>
    /\ UNCHANGED <<trainVars, gcVars, mwVars>>

\* accelerator.print(... loss.item() ... perplexity.item() ...)
\* return loss.item(), perplexity.item()
EvReturn ==
    /\ ev_pc = "print"
    /\ IF HasItem(ev_perplexity)
       THEN /\ ev_result' = [raised |-> "none", loss |-> ev_loss,
                             perplexity |-> Item(ev_perplexity)]
            /\ ev_pc' = "returned"
       ELSE /\ ev_result' = [ev_result EXCEPT !.raised = "AttributeError"]
            /\ ev_pc' = "raised"
    /\ UNCHANGED <<ev_in, ev_losses, ev_loss, ev_perplexity, ev_mode>>
    /\ UNCHANGED <<trainVars, gcVars, mwVars>>

EvalNext ==
    \/ EvModelEval
    \/ EvBatch
    \/ EvMean
    \/ EvExp
    \/ EvReturn

InitEval == EvalInit /\ TrainOff /\ GcOff /\ MwOff

SpecEval == InitEval /\ [][EvalNext]_vars

\* ============================================================== GPT2Config

N_HEAD == 12

N_LAYER == 12

DefaultNEmbd == 768

\* layer counts a caller asks for (the sweep grid holds 5 and 7)
RequestedLayers == {2, 5, 7, 12}

RequestedWidths == {64, 768}

RequestedHeads == {8, 12}

\* __init__(self, vocab_size=50257, n_embd=768, drop=0.1, block_size=1024):
\* a keyword call binds the width; the sweep driver's GPT2Config(config)
\* binds its dict to vocab_size and leaves n_embd at its default. No
\* parameter takes a layer count or a head count.
BoundNEmbd(call, req) == IF call = "keyword" THEN req.n_embd ELSE DefaultNEmbd

\* components.Attention(n_embd=..., n_head=...): fails unless the width is
\* a multiple of the head count
AttentionAccepts(n_embd, n_head) == n_embd % n_head = 0

GcInit ==
    /\ gc_pc = "call"
    /\ gc_call \in {"keyword", "sweep_dict"}
    /\ gc_req \in [n_layer : RequestedLayers, n_embd : RequestedWidths,
                   n_head : RequestedHeads]
    /\ gc_n_embd = 0
    /\ gc_blocks = <<>>

\* self.n_embd = n_embd ...; n_head = 12; n_layer = 12;
\* self.blocks = nn.ModuleList()
GcBegin ==
    /\ gc_pc = "call"
    /\ gc_n_embd' = BoundNEmbd(gc_call, gc_req)
    /\ gc_blocks' = <<>>
    /\ gc_pc' = "loop"
    /\ UNCHANGED <<gc_call, gc_req>>
    /\ UNCHANGED <<trainVars, evalVars, mwVars>>

\* one pass of `for _ in range(n_layer)`: build attn, mlp, block; append
GcAppendBlock ==
    /\ gc_pc = "loop"
    /\ Len(gc_blocks) < N_LAYER
    /\ IF AttentionAccepts(gc_n_embd, N_HEAD)
       THEN /\ gc_blocks' =
                 Append(gc_blocks, [n_embd |-> gc_n_embd, n_head |-> N_HEAD])
            /\ gc_pc' = "loop"
       ELSE /\ gc_blocks' = gc_blocks
            /\ gc_pc' = "error"
    /\ UNCHANGED <<gc_call, gc_req, gc_n_embd>>
    /\ UNCHANGED <<trainVars, evalVars, mwVars>>

\* the for loop is exhausted: __init__ returns
GcReturn ==
    /\ gc_pc = "loop"
    /\ Len(gc_blocks) = N_LAYER
    /\ gc_pc' = "done"
    /\ UNCHANGED <<gc_call, gc_req, gc_n_embd, gc_blocks>>
    /\ UNCHANGED <<trainVars, evalVars, mwVars>>

GcNext ==
    \/ GcBegin
    \/ GcAppendBlock
    \/ GcReturn

InitCfg == GcInit /\ TrainOff /\ EvalOff /\ MwOff

SpecCfg == InitCfg /\ [][GcNext]_vars

\* ========================================================= several workers

NumWorkers == 2

Workers == 0..(NumWorkers - 1)

\* len(train_dataloader) values explored with several workers
MWTrainLens == {1, 2, 3, CheckpointInterval}

mwCfg == <<mw_num_epochs, mw_n_batches>>

\* accelerator.is_main_process
IsMainProcess(w) == w = 0

\* faulty variant: wait_for_everyone() returning at once
BarrierComplete_NoWait(w) == TRUE

\* accelerator.wait_for_everyone() returns for w once every worker has made
\* as many wait_for_everyone() calls as w has
BarrierComplete(w) == \A v \in Workers : w_barriers[v] >= w_barriers[w]

\* accelerator.backward(loss) on a synchronising micro-batch all-reduces the
\* gradients: it completes for w only once every other worker has finished
\* the iterations before it and is itself running the loop.
AllReduceReady(w) ==
    \A v \in Workers :
        \/ w_abs[v] > w_abs[w]
        \/ w_abs[v] = w_abs[w] /\ w_pc[v] \in {"train", "epoch"}

\* the directory save_dir.mkdir creates
DirEntry(w, ord) == [path |-> w_abs[w], part |-> "dir", by |-> w, ord |-> ord]

\* what save_pretrained(is_main_process=accelerator.is_main_process) and
\* accelerator.save write on worker w: only the main process writes
SavedEntries(w, part) ==
    IF IsMainProcess(w)
    THEN {[path |-> w_abs[w], part |-> part, by |-> w, ord |-> w_barriers[w]]}
    ELSE {}

MwInit ==
    /\ mw_num_epochs \in 1..MaxEpochs
    /\ mw_n_batches \in MWTrainLens
    /\ w_pc = [w \in Workers |-> "epoch"]
    /\ w_epoch = [w \in Workers |-> -1]
    /\ w_fetched = [w \in Workers |-> 0]
    /\ w_abs = [w \in Workers |-> 0]
    /\ w_acc = [w \in Workers |-> 0]
    /\ w_barriers = [w \in Workers |-> 0]
    /\ fs = {}

MW_BeginEpoch(w) ==
    /\ w_pc[w] = "epoch"
    /\ w_epoch[w] + 1 < mw_num_epochs
    /\ w_epoch' = [w_epoch EXCEPT ![w] = @ + 1]
    /\ w_fetched' = [w_fetched EXCEPT ![w] = 0]
    /\ w_pc' = [w_pc EXCEPT ![w] = "train"]
    /\ UNCHANGED <<mwCfg, w_abs, w_acc, w_barriers, fs>>
    /\ UNCHANGED <<trainVars, evalVars, gcVars>>

\* one iteration of the inner loop, up to the checkpoint test
MW_TrainStep(w) ==
    /\ w_pc[w] = "train"
    /\ w_fetched[w] < mw_n_batches
    /\ LET eod  == w_fetched[w] + 1 = mw_n_batches
           sync == AccumulateSync(w_acc[w], eod)
       IN /\ sync => AllReduceReady(w)
          /\ w_acc' = [w_acc EXCEPT ![w] = AccumulateStep(@, eod)]
    /\ w_fetched' = [w_fetched EXCEPT ![w] = @ + 1]
    /\ w_abs' = [w_abs EXCEPT ![w] = @ + 1]
    /\ w_pc' = [w_pc EXCEPT ![w] =
                  IF CheckpointDue(w_abs[w] + 1) THEN "ckpt_enter" ELSE "train"]
    /\ UNCHANGED <<mwCfg, w_epoch, w_barriers, fs>>
    /\ UNCHANGED <<trainVars, evalVars, gcVars>>

MW_EndEpoch(w) ==
    /\ w_pc[w] = "train"
    /\ w_fetched[w] = mw_n_batches
    /\ w_pc' = [w_pc EXCEPT ![w] = "epoch"]
    /\ UNCHANGED <<mwCfg, w_epoch, w_fetched, w_abs, w_acc, w_barriers, fs>>
    /\ UNCHANGED <<trainVars, evalVars, gcVars>>

MW_LoopExit(w) ==
    /\ w_pc[w] = "epoch"
    /\ w_epoch[w] + 1 = mw_num_epochs
    /\ w_pc' = [w_pc EXCEPT ![w] = "final_enter"]
    /\ UNCHANGED <<mwCfg, w_epoch, w_fetched, w_abs, w_acc, w_barriers, fs>>
    /\ UNCHANGED <<trainVars, evalVars, gcVars>>

\* save_dir.mkdir(parents=True, exist_ok=True), then the call of
\* accelerator.wait_for_everyone()
EnterCheckpoint(w, at, to) ==
    /\ w_pc[w] = at
    /\ fs' = fs \cup {DirEntry(w, w_barriers[w] + 1)}
    /\ w_barriers' = [w_barriers EXCEPT ![w] = @ + 1]
    /\ w_pc' = [w_pc EXCEPT ![w] = to]
    /\ UNCHANGED <<mwCfg, w_epoch, w_fetched, w_abs, w_acc>>
    /\ UNCHANGED <<trainVars, evalVars, gcVars>>

\* wait_for_everyone() returns; unwrapped_model.save_pretrained(...)
SaveModel(w, at, to) ==
    /\ w_pc[w] = at
    /\ BarrierComplete(w)
    /\ fs' = fs \cup SavedEntries(w, "model")
    /\ w_pc' = [w_pc EXCEPT ![w] = to]
    /\ UNCHANGED <<mwCfg, w_epoch, w_fetched, w_abs, w_acc, w_barriers>>
    /\ UNCHANGED <<trainVars, evalVars, gcVars>>

\* accelerator.save({...}, os.path.join(save_dir, "accelerator_states"))
SaveStates(w, at, to) ==
    /\ w_pc[w] = at
    /\ fs' = fs \cup SavedEntries(w, "accelerator_states")
    /\ w_pc' = [w_pc EXCEPT ![w] = to]
    /\ UNCHANGED <<mwCfg, w_epoch, w_fetched, w_abs, w_acc, w_barriers>>
    /\ UNCHANGED <<trainVars, evalVars, gcVars>>

\* the block under `if absolute_step % 20000 == 0`
MW_CkptEnter(w) == EnterCheckpoint(w, "ckpt_enter", "ckpt_model")

MW_CkptSaveModel(w) == SaveModel(w, "ckpt_model", "ckpt_states")

MW_CkptSaveStates(w) == SaveStates(w, "ckpt_states", "train")

\* the block under `# Save final model`
MW_FinalEnter(w) == EnterCheckpoint(w, "final_enter", "final_model")

MW_FinalSaveModel(w) == SaveModel(w, "final_model", "final_states")

MW_FinalSaveStates(w) == SaveStates(w, "final_states", "end")

MW_EndTraining(w) ==
    /\ w_pc[w] = "end"
    /\ w_pc' = [w_pc EXCEPT ![w] = "finished"]
    /\ UNCHANGED <<mwCfg, w_epoch, w_fetched, w_abs, w_acc, w_barriers, fs>>
    /\ UNCHANGED <<trainVars, evalVars, gcVars>>

MwNext ==
    \E w \in Workers :
        \/ MW_BeginEpoch(w)
        \/ MW_TrainStep(w)
        \/ MW_EndEpoch(w)
        \/ MW_LoopExit(w)
        \/ MW_CkptEnter(w)
        \/ MW_CkptSaveModel(w)
        \/ MW_CkptSaveStates(w)
        \/ MW_FinalEnter(w)
        \/ MW_FinalSaveModel(w)
        \/ MW_FinalSaveStates(w)
        \/ MW_EndTraining(w)

InitMW == MwInit /\ TrainOff /\ EvalOff /\ GcOff

SpecMW == InitMW /\ [][MwNext]_vars

\* ---------------------------------------------------------------- claims

\* C1 (as stated): every optimizer update that is applied because the
\* accumulation count was reached (not the flush on the last batch of an
\* epoch) has accumulated batch_size / MAX_GPU_BATCH_SIZE micro-batches, and
\* one micro-batch when batch_size <= MAX_GPU_BATCH_SIZE.
C1_AccumulationFollowsBatchSize ==
    [][(/\ absolute_step' = absolute_step + 1
        /\ opt_steps' = opt_steps + 1
        /\ fetched + 1 < n_batches)
       => grad_accum + 1 =
            (IF cfg_batch_size > MAX_GPU_BATCH_SIZE
             THEN cfg_batch_size \div MAX_GPU_BATCH_SIZE ELSE 1)]_vars

InEvaluation == pc \in {"eval", "evaluating", "evallog"}

\* C2: the loop evaluates exactly when absolute_step is a multiple of 200:
\* the number of evaluate() calls is absolute_step \div 200 (one less while
\* the evaluation of the current step is still to run), each call runs every
\* validation batch with the model in eval mode and gradient tracking off,
\* the validation loss and the perplexity are both logged at that step, and
\* training goes on in training mode.
C2_EvalEvery200 ==
    /\ InEvaluation => absolute_step > 0 /\ absolute_step % EvalInterval = 0
    /\ n_evals = (absolute_step \div EvalInterval)
                   - (IF pc \in {"eval", "evaluating"} THEN 1 ELSE 0)
    /\ n_evals > 0 =>
         eval_fwd = [n |-> n_eval_batches, grad |-> FALSE, mode |-> "eval"]
    /\ pc = "evaluating" => model_mode = "eval" /\ ~grad_enabled
    /\ pc \in {"train", "epoch", "ckpt"} => model_mode = "train" /\ grad_enabled
    /\ \A k \in ValidKeys :
         /\ metrics[k].n = n_evals - (IF pc = "evallog" THEN 1 ELSE 0)
         /\ metrics[k].last = metrics[k].n * EvalInterval
    /\ metrics["validation/valid_loss"].n > 0 =>
         /\ metrics["validation/valid_loss"].val = "loss"
         /\ metrics["validation/valid_accuracy"].val = "perplexity"

C2_Witness ==
    /\ pc = "train"
    /\ absolute_step = EvalInterval
    /\ metrics["validation/valid_accuracy"].last = EvalInterval

PeriodicIn(log) == SelectSeq(log, LAMBDA r : r.kind = "periodic")

FinalIn(log) == SelectSeq(log, LAMBDA r : r.kind = "final")

CheckpointPending ==
    /\ pc \in {"eval", "evaluating", "evallog", "ckpt"}
    /\ absolute_step % CheckpointInterval = 0

C3_Safety ==
    /\ Len(PeriodicIn(ckpt_log)) =
         (absolute_step \div CheckpointInterval)
           - (IF CheckpointPending THEN 1 ELSE 0)
    /\ \A i \in 1..Len(PeriodicIn(ckpt_log)) :
         /\ ckpt_log[i].kind = "periodic"
         /\ ckpt_log[i].path = i * CheckpointInterval
    /\ Len(FinalIn(ckpt_log)) = (IF pc \in {"end", "finished"} THEN 1 ELSE 0)
    /\ \A i \in 1..Len(ckpt_log) :
         /\ ckpt_log[i].files = {"model", "accelerator_states"}
         /\ ckpt_log[i].epoch = (ckpt_log[i].path - 1) \div n_batches
         /\ ckpt_log[i].steps = (ckpt_log[i].path - 1) % n_batches
         /\ ckpt_log[i].optimizer = ckpt_log[i].scheduler
         /\ ckpt_log[i].optimizer > 0
    /\ pc \in {"end", "finished"} =>
         /\ epoch = num_epochs - 1
         /\ fetched = n_batches
         /\ absolute_step = num_epochs * n_batches
         /\ ckpt_log[Len(ckpt_log)].kind = "final"
         /\ ckpt_log[Len(ckpt_log)].path = absolute_step

C4_LogStepsMonotonic ==
    [][/\ \A k \in MetricKeys :
            \/ metrics'[k] = metrics[k]
            \/ /\ metrics'[k].n = metrics[k].n + 1
               /\ metrics'[k].last > metrics[k].last
       /\ \A k \in TrainKeys :
            /\ metrics'[k].n = absolute_step'
            /\ metrics'[k].last = absolute_step'
            /\ absolute_step' = absolute_step + 1 =>
                 metrics'[k].last = metrics[k].last + 1
       /\ absolute_step' \in {absolute_step, absolute_step + 1}]_vars

C4_Witness ==
    /\ epoch = 1
    /\ n_evals > 0
    /\ Len(ckpt_log) > 0
    /\ pc = "train"
    /\ metrics["train/train_loss"].last = CheckpointInterval + 1

\* C5: a run over 10 training batches with batch size 2 and 1 epoch ends
\* with exactly 5 optimizer updates and exactly one checkpoint, the final
\* one, holding the model files and the accelerator_states bundle.
C5_TenBatchRun ==
    (cfg_batch_size = 2 /\ n_batches = 10 /\ num_epochs = 1 /\ pc = "finished")
    => /\ opt_steps = 5
       /\ Len(ckpt_log) = 1
       /\ ckpt_log[1].kind = "final"
       /\ ckpt_log[1].path = 10
       /\ ckpt_log[1].files = {"model", "accelerator_states"}

C5_Witness ==
    cfg_batch_size = 2 /\ n_batches = 10 /\ num_epochs = 1 /\ pc = "finished"

\* C8 (as stated): on a training iteration the optimizer and the scheduler
\* each advance by one and the gradients are cleared when the accumulation
\* count is reached, and neither advances when it is not.
C8_UpdateOnlyAtThreshold ==
    [][absolute_step' = absolute_step + 1 =>
         IF grad_accum + 1 = AcceleratorGradAccumSteps
         THEN /\ opt_steps' = opt_steps + 1
              /\ sched_steps' = sched_steps + 1
              /\ grad_accum' = 0
         ELSE /\ opt_steps' = opt_steps
              /\ sched_steps' = sched_steps]_vars

\* C8 (amended): on a training iteration the optimizer and the scheduler
\* each advance by exactly one and the gradients are cleared when the
\* accumulation count is reached or the micro-batch is the last one of the
\* epoch's dataloader; on every other micro-batch neither advances; the
\* number of scheduler steps always equals the number of optimizer steps.
C8_UpdateAtThresholdOrEpochEnd ==
    [][/\ absolute_step' = absolute_step + 1 =>
            IF \/ grad_accum + 1 = AcceleratorGradAccumSteps
               \/ fetched + 1 = n_batches
            THEN /\ opt_steps' = opt_steps + 1
                 /\ sched_steps' = sched_steps + 1
                 /\ grad_accum' = 0
            ELSE /\ opt_steps' = opt_steps
                 /\ sched_steps' = sched_steps
                 /\ grad_accum' = grad_accum + 1
       /\ absolute_step' = absolute_step =>
            opt_steps' = opt_steps /\ sched_steps' = sched_steps
       /\ sched_steps' = opt_steps']_vars

C8_Witness ==
    /\ n_batches = 3
    /\ fetched = 3
    /\ epoch = 1
    /\ opt_steps = 4
    /\ sched_steps = 4
    /\ grad_accum = 0

\* C10 (as stated): every checkpoint write of a run targets a path that no
\* earlier write of the run targeted.
C10_CheckpointPathsDistinct ==
    \A i, j \in 1..Len(ckpt_log) :
        i # j => ckpt_log[i].path # ckpt_log[j].path

MeanOfInput == <<SumSeq(ev_in), Len(ev_in)>>

\* C6: evaluate never raises; it returns the pair (mean validation loss,
\* perplexity) where the perplexity is exp(mean loss) when that is finite
\* and infinity when the exponential overflows.
C6_PerplexityOrInf ==
    ev_pc \in {"returned", "raised"} =>
        /\ ev_pc = "returned"
        /\ ev_result.raised = "none"
        /\ ev_result.loss = MeanOfInput
        /\ ev_result.perplexity =
             (IF ExpOverflows(MeanOfInput)
              THEN [kind |-> "inf", arg |-> <<0, 0>>]
              ELSE [kind |-> "exp", arg |-> MeanOfInput])

C6_Witness ==
    /\ ev_pc = "returned"
    /\ Len(ev_in) = 2
    /\ ExpOverflows(MeanOfInput)
    /\ ev_result.perplexity.kind = "inf"

\* C7 (as stated, its layer-count part): whenever construction succeeds for
\* a request whose width is a multiple of its head count, the block stack
\* has the requested number of layers.
C7_LayerCountAsRequested ==
    (gc_pc = "done" /\ gc_req.n_embd % gc_req.n_head = 0)
    => Len(gc_blocks) = gc_req.n_layer

\* C9 (as stated): every filesystem write of a checkpoint, the creation of
\* its directory included, happens when all workers have reached that
\* checkpoint's barrier, and only the primary worker writes the model and
\* the accelerator_states bundle.
C9_AllWritesAfterBarrier ==
    [][\A e \in fs' \ fs :
          /\ \A v \in Workers : w_barriers'[v] >= e.ord
          /\ e.part # "dir" => IsMainProcess(e.by)]_vars

\* C9 (amended): the model files and the accelerator_states bundle of a
\* checkpoint are written only by the primary worker and only when all
\* workers have reached that checkpoint's barrier; the directory is created
\* by every worker before it enters the barrier.
C9_SerializationAfterBarrier ==
    [][\A e \in fs' \ fs :
          IF e.part = "dir"
          THEN w_barriers[e.by] = e.ord - 1 /\ w_barriers'[e.by] = e.ord
          ELSE /\ \A v \in Workers : w_barriers'[v] >= e.ord
               /\ IsMainProcess(e.by)]_vars

C9_Witness ==
    /\ NumWorkers > 1
    /\ mw_num_epochs = 2
    /\ \E e \in fs :
         /\ e.part = "accelerator_states"
         /\ e.path = CheckpointInterval
         /\ e.ord = 1
    /\ \E e \in fs : e.part = "model" /\ e.ord = 3
    /\ \A w \in Workers : \E e \in fs : e.part = "dir" /\ e.by = w /\ e.ord = 3

====
